---------------------------- MODULE Spec2Model ----------------------------
(***************************************************************************)
(* A model of src/main.py: CoffeeOrderBuilder, a fluent builder that       *)
(* validates each choice against static catalogs and numeric limits, and   *)
(* CoffeeOrder, the frozen value that build() returns.                     *)
(*                                                                         *)
(* One action per method of the builder.  Besides the builder's fields     *)
(* the state records the last call (op, arg) and its outcome (raised,      *)
(* order), so that properties can speak of "a call that failed" or "the    *)
(* Order that build() returned".                                           *)
(*                                                                         *)
(* Money.  The source computes prices in binary floating point and rounds  *)
(* the subtotal once with round(subtotal, 2).  Every catalog entry is a    *)
(* decimal with at most one fractional digit, so every subtotal is a       *)
(* decimal with at most two fractional digits and the float result is the  *)
(* double nearest to the exact decimal value.  The model computes in       *)
(* fixed point: intermediate costs in units of 1/10000, the rounded price  *)
(* in units of 1/100 (round2 rounds half to even, as Python's round).      *)
(*                                                                         *)
(* Messages.  The source's exception messages are Russian text; the        *)
(* module keeps one distinct ASCII message per raise statement.            *)
(***************************************************************************)
EXTENDS Integers, Sequences, FiniteSets, TLC

VARIABLES base, size, milk, syrups, sugar, iced, shots,
          op, arg, raised, order, kept

fields == <<base, size, milk, syrups, sugar, iced, shots>>
vars == <<base, size, milk, syrups, sugar, iced, shots,
          op, arg, raised, order, kept>>

(* ------------------------------ catalogs ------------------------------ *)

\* Optional[str] = None
None == "None"

BASE_PRICES ==
    [espresso |-> 200, americano |-> 250, latte |-> 300, cappuccino |-> 320]

\* 1.0, 1.2, 1.4 in tenths
SIZE_MULTIPLIERS == [small |-> 10, medium |-> 12, large |-> 14]

MILK_SURCHARGES ==
    [none |-> 0, whole |-> 30, skim |-> 30, oat |-> 60, soy |-> 50]

SYRUP_PRICE == 40

SHOT_PRICE == 70

\* 0.2 in hundredths
ICED_RATE == 20

MAX_SYRUPS == 4

MAX_SUGAR == 5

MAX_SHOTS == 3

DEFAULT_MILK == "none"

\* fixed-point units per currency unit for intermediate costs
Fx == 10000

(* ------------------------------ helpers ------------------------------- *)

\* Python's  name in list
Contains(s, name) == \E i \in 1..Len(s) : s[i] = name

\* raise ValueError(msg)
ValueError(msg) == <<"ValueError", msg>>

NoException == <<>>

NoOrder == <<>>

\* round(x, 2): x in units of 1/10000, the result in units of 1/100,
\* a tie going to the even neighbour
round2(x) ==
    LET q == x \div 100
        r == x % 100
    IN  IF r < 50 THEN q
        ELSE IF r > 50 THEN q + 1
        ELSE IF q % 2 = 0 THEN q ELSE q + 1

RECURSIVE join(_, _)
\* sep.join(parts)
join(sep, parts) ==
    IF Len(parts) = 0 THEN ""
    ELSE IF Len(parts) = 1 THEN parts[1]
    ELSE parts[1] \o sep \o join(sep, Tail(parts))

(* --------------------------- build helpers ---------------------------- *)

\* mutant: the multiplier taken as a surcharge over 1.0, so that a small
\* drink has no base cost
_calc_price_multiplier_over_one ==
    LET base_cost == BASE_PRICES[base] * (SIZE_MULTIPLIERS[size] - 10)
                       * (Fx \div 10)
        milk_cost == MILK_SURCHARGES[milk] * Fx
        syrup_cost == Len(syrups) * SYRUP_PRICE * Fx
        shots_cost == shots * SHOT_PRICE * Fx
        subtotal == base_cost + milk_cost + syrup_cost + shots_cost
        total == IF iced THEN subtotal + (base_cost * ICED_RATE) \div 100
                 ELSE subtotal
    IN  round2(total)

\* mutant: the iced surcharge taken on the base price, the size left out
_calc_price_iced_on_base_price ==
    LET base_cost == BASE_PRICES[base] * SIZE_MULTIPLIERS[size] * (Fx \div 10)
        milk_cost == MILK_SURCHARGES[milk] * Fx
        syrup_cost == Len(syrups) * SYRUP_PRICE * Fx
        shots_cost == shots * SHOT_PRICE * Fx
        subtotal == base_cost + milk_cost + syrup_cost + shots_cost
        total == IF iced
                 THEN subtotal + (BASE_PRICES[base] * Fx * ICED_RATE) \div 100
                 ELSE subtotal
    IN  round2(total)

\* mutant: the iced surcharge taken on the subtotal instead of the base cost
_calc_price_iced_on_subtotal ==
    LET base_cost == BASE_PRICES[base] * SIZE_MULTIPLIERS[size] * (Fx \div 10)
        milk_cost == MILK_SURCHARGES[milk] * Fx
        syrup_cost == Len(syrups) * SYRUP_PRICE * Fx
        shots_cost == shots * SHOT_PRICE * Fx
        subtotal == base_cost + milk_cost + syrup_cost + shots_cost
        total == IF iced THEN subtotal + (subtotal * ICED_RATE) \div 100
                 ELSE subtotal
    IN  round2(total)

_calc_price ==
    LET base_cost == BASE_PRICES[base] * SIZE_MULTIPLIERS[size] * (Fx \div 10)
        milk_cost == MILK_SURCHARGES[milk] * Fx
        syrup_cost == Len(syrups) * SYRUP_PRICE * Fx
        shots_cost == shots * SHOT_PRICE * Fx
        subtotal == base_cost + milk_cost + syrup_cost + shots_cost
        total == IF iced THEN subtotal + (base_cost * ICED_RATE) \div 100
                 ELSE subtotal
    IN  round2(total)

\* mutant: the sugar clause placed before the iced clause
_build_description_sugar_first ==
    LET p1 == <<size \o " " \o base>>
        p2 == IF milk # DEFAULT_MILK
              THEN Append(p1, "with " \o milk \o " milk") ELSE p1
        p3 == IF Len(syrups) # 0
              THEN Append(p2, "+" \o join(",", syrups) \o " syrup") ELSE p2
        p4 == IF sugar # 0
              THEN Append(p3, ToString(sugar) \o " tsp sugar") ELSE p3
        p5 == IF iced THEN Append(p4, "(iced)") ELSE p4
        p6 == IF shots # 0
              THEN Append(p5, "+" \o ToString(shots) \o " extra shot(s)")
              ELSE p5
    IN  join(" ", p6)

_build_description ==
    LET p1 == <<size \o " " \o base>>
        p2 == IF milk # DEFAULT_MILK
              THEN Append(p1, "with " \o milk \o " milk") ELSE p1
        p3 == IF Len(syrups) # 0
              THEN Append(p2, "+" \o join(",", syrups) \o " syrup") ELSE p2
        p4 == IF iced THEN Append(p3, "(iced)") ELSE p3
        p5 == IF sugar # 0
              THEN Append(p4, ToString(sugar) \o " tsp sugar") ELSE p4
        p6 == IF shots # 0
              THEN Append(p5, "+" \o ToString(shots) \o " extra shot(s)")
              ELSE p5
    IN  join(" ", p6)

\* tuple(self._syrups): an immutable copy of the list's current contents
syrups_tuple == syrups

\* the CoffeeOrder(...) that build() constructs
CoffeeOrder ==
    [base |-> base, size |-> size, milk |-> milk, syrups |-> syrups_tuple,
     sugar |-> sugar, iced |-> iced, price |-> _calc_price,
     description |-> _build_description, extra_shots |-> shots]

(* ------------------------------ outcomes ------------------------------ *)

\* the call returns the builder itself
ReturnSelf == raised' = NoException /\ order' = NoOrder

\* the call raises: nothing is returned
Raise(e) == raised' = e /\ order' = NoOrder

(* ------------------------------ actions ------------------------------- *)

Init ==
    /\ base = None
    /\ size = None
    /\ milk = DEFAULT_MILK
    /\ syrups = <<>>
    /\ sugar = 0
    /\ iced = FALSE
    /\ shots = 0
    /\ op = "__init__"
    /\ arg = <<>>
    /\ raised = NoException
    /\ order = NoOrder
    /\ kept = NoOrder

set_base(b) ==
    /\ op' = "set_base" /\ arg' = <<b>>
    /\ IF b \notin DOMAIN BASE_PRICES
       THEN /\ Raise(ValueError("Invalid base: " \o b))
            /\ UNCHANGED base
       ELSE /\ base' = b
            /\ ReturnSelf
    /\ UNCHANGED <<size, milk, syrups, sugar, iced, shots, kept>>

set_size(s) ==
    /\ op' = "set_size" /\ arg' = <<s>>
    /\ IF s \notin DOMAIN SIZE_MULTIPLIERS
       THEN /\ Raise(ValueError("Invalid size: " \o s))
            /\ UNCHANGED size
       ELSE /\ size' = s
            /\ ReturnSelf
    /\ UNCHANGED <<base, milk, syrups, sugar, iced, shots, kept>>

\* mutant: the milk looked up in the size catalog
set_milk_wrong_catalog(m) ==
    /\ op' = "set_milk" /\ arg' = <<m>>
    /\ IF m \notin DOMAIN SIZE_MULTIPLIERS
       THEN /\ Raise(ValueError("Invalid milk: " \o m))
            /\ UNCHANGED milk
       ELSE /\ milk' = m
            /\ ReturnSelf
    /\ UNCHANGED <<base, size, syrups, sugar, iced, shots, kept>>

set_milk(m) ==
    /\ op' = "set_milk" /\ arg' = <<m>>
    /\ IF m \notin DOMAIN MILK_SURCHARGES
       THEN /\ Raise(ValueError("Invalid milk: " \o m))
            /\ UNCHANGED milk
       ELSE /\ milk' = m
            /\ ReturnSelf
    /\ UNCHANGED <<base, size, syrups, sugar, iced, shots, kept>>

\* mutant: a name already present is moved to the end
add_syrup_move_to_end(name) ==
    /\ op' = "add_syrup" /\ arg' = <<name>>
    /\ IF ~Contains(syrups, name)
       THEN IF Len(syrups) >= MAX_SYRUPS
            THEN /\ Raise(ValueError("Syrup limit exceeded"))
                 /\ UNCHANGED syrups
            ELSE /\ syrups' = Append(syrups, name)
                 /\ ReturnSelf
       ELSE /\ syrups' = Append(SelectSeq(syrups, LAMBDA x : x # name), name)
            /\ ReturnSelf
    /\ UNCHANGED <<base, size, milk, sugar, iced, shots, kept>>

\* mutant: the limit compared with > instead of >=
add_syrup_off_by_one(name) ==
    /\ op' = "add_syrup" /\ arg' = <<name>>
    /\ IF ~Contains(syrups, name)
       THEN IF Len(syrups) > MAX_SYRUPS
            THEN /\ Raise(ValueError("Syrup limit exceeded"))
                 /\ UNCHANGED syrups
            ELSE /\ syrups' = Append(syrups, name)
                 /\ ReturnSelf
       ELSE /\ UNCHANGED syrups
            /\ ReturnSelf
    /\ UNCHANGED <<base, size, milk, sugar, iced, shots, kept>>

\* mutant: the limit checked before the duplicate test
add_syrup_limit_first(name) ==
    /\ op' = "add_syrup" /\ arg' = <<name>>
    /\ IF Len(syrups) >= MAX_SYRUPS
       THEN /\ Raise(ValueError("Syrup limit exceeded"))
            /\ UNCHANGED syrups
       ELSE IF ~Contains(syrups, name)
            THEN /\ syrups' = Append(syrups, name)
                 /\ ReturnSelf
            ELSE /\ UNCHANGED syrups
                 /\ ReturnSelf
    /\ UNCHANGED <<base, size, milk, sugar, iced, shots, kept>>

\* mutant: insert(0, name) instead of append(name)
add_syrup_prepend(name) ==
    /\ op' = "add_syrup" /\ arg' = <<name>>
    /\ IF ~Contains(syrups, name)
       THEN IF Len(syrups) >= MAX_SYRUPS
            THEN /\ Raise(ValueError("Syrup limit exceeded"))
                 /\ UNCHANGED syrups
            ELSE /\ syrups' = <<name>> \o syrups
                 /\ ReturnSelf
       ELSE /\ UNCHANGED syrups
            /\ ReturnSelf
    /\ UNCHANGED <<base, size, milk, sugar, iced, shots, kept>>

add_syrup(name) ==
    /\ op' = "add_syrup" /\ arg' = <<name>>
    /\ IF ~Contains(syrups, name)
       THEN IF Len(syrups) >= MAX_SYRUPS
            THEN /\ Raise(ValueError("Syrup limit exceeded"))
                 /\ UNCHANGED syrups
            ELSE /\ syrups' = Append(syrups, name)
                 /\ ReturnSelf
       ELSE /\ UNCHANGED syrups
            /\ ReturnSelf
    /\ UNCHANGED <<base, size, milk, sugar, iced, shots, kept>>

\* mutant: the upper limit itself refused
set_sugar_exclusive_max(teaspoons) ==
    /\ op' = "set_sugar" /\ arg' = <<teaspoons>>
    /\ IF ~(0 <= teaspoons /\ teaspoons < MAX_SUGAR)
       THEN /\ Raise(ValueError("Sugar must be in range 0..5"))
            /\ UNCHANGED sugar
       ELSE /\ sugar' = teaspoons
            /\ ReturnSelf
    /\ UNCHANGED <<base, size, milk, syrups, iced, shots, kept>>

set_sugar(teaspoons) ==
    /\ op' = "set_sugar" /\ arg' = <<teaspoons>>
    /\ IF ~(0 <= teaspoons /\ teaspoons <= MAX_SUGAR)
       THEN /\ Raise(ValueError("Sugar must be in range 0..5"))
            /\ UNCHANGED sugar
       ELSE /\ sugar' = teaspoons
            /\ ReturnSelf
    /\ UNCHANGED <<base, size, milk, syrups, iced, shots, kept>>

\* mutant: the total stored before the limit is checked
add_shot_eager(count) ==
    /\ op' = "add_shot" /\ arg' = <<count>>
    /\ IF count < 0
       THEN /\ Raise(ValueError("Shot count cannot be negative"))
            /\ UNCHANGED shots
       ELSE LET new_total == shots + count
            IN  IF new_total > MAX_SHOTS
                THEN /\ Raise(ValueError("Shot limit exceeded"))
                     /\ shots' = new_total
                ELSE /\ shots' = new_total
                     /\ ReturnSelf
    /\ UNCHANGED <<base, size, milk, syrups, sugar, iced, kept>>

\* mutant: the count overwrites the running total
add_shot_overwrite(count) ==
    /\ op' = "add_shot" /\ arg' = <<count>>
    /\ IF count < 0
       THEN /\ Raise(ValueError("Shot count cannot be negative"))
            /\ UNCHANGED shots
       ELSE LET new_total == count
            IN  IF new_total > MAX_SHOTS
                THEN /\ Raise(ValueError("Shot limit exceeded"))
                     /\ UNCHANGED shots
                ELSE /\ shots' = new_total
                     /\ ReturnSelf
    /\ UNCHANGED <<base, size, milk, syrups, sugar, iced, kept>>

add_shot(count) ==
    /\ op' = "add_shot" /\ arg' = <<count>>
    /\ IF count < 0
       THEN /\ Raise(ValueError("Shot count cannot be negative"))
            /\ UNCHANGED shots
       ELSE LET new_total == shots + count
            IN  IF new_total > MAX_SHOTS
                THEN /\ Raise(ValueError("Shot limit exceeded"))
                     /\ UNCHANGED shots
                ELSE /\ shots' = new_total
                     /\ ReturnSelf
    /\ UNCHANGED <<base, size, milk, syrups, sugar, iced, kept>>

\* mutant: the flag only ever switched on
set_iced_only_sets(flag) ==
    /\ op' = "set_iced" /\ arg' = <<flag>>
    /\ iced' = (iced \/ flag)
    /\ ReturnSelf
    /\ UNCHANGED <<base, size, milk, syrups, sugar, shots, kept>>

set_iced(flag) ==
    /\ op' = "set_iced" /\ arg' = <<flag>>
    /\ iced' = flag
    /\ ReturnSelf
    /\ UNCHANGED <<base, size, milk, syrups, sugar, shots, kept>>

\* mutant: the shot total is not reset
clear_extras_keeps_shots ==
    /\ op' = "clear_extras" /\ arg' = <<>>
    /\ milk' = DEFAULT_MILK
    /\ syrups' = <<>>
    /\ sugar' = 0
    /\ iced' = FALSE
    /\ ReturnSelf
    /\ UNCHANGED <<base, size, shots, kept>>

\* mutant: the reset also drops base and size
clear_extras_resets_all ==
    /\ op' = "clear_extras" /\ arg' = <<>>
    /\ base' = None
    /\ size' = None
    /\ milk' = DEFAULT_MILK
    /\ syrups' = <<>>
    /\ sugar' = 0
    /\ shots' = 0
    /\ iced' = FALSE
    /\ ReturnSelf
    /\ UNCHANGED kept

clear_extras ==
    /\ op' = "clear_extras" /\ arg' = <<>>
    /\ milk' = DEFAULT_MILK
    /\ syrups' = <<>>
    /\ sugar' = 0
    /\ shots' = 0
    /\ iced' = FALSE
    /\ ReturnSelf
    /\ UNCHANGED <<base, size, kept>>

\* mutant: build() resets the extras once the Order is made
build_consuming ==
    /\ op' = "build" /\ arg' = <<>>
    /\ IF base = None
       THEN Raise(ValueError("base is required")) /\ UNCHANGED fields
       ELSE IF size = None
            THEN Raise(ValueError("size is required")) /\ UNCHANGED fields
            ELSE /\ raised' = NoException
                 /\ order' = <<CoffeeOrder>>
                 /\ milk' = DEFAULT_MILK
                 /\ syrups' = <<>>
                 /\ sugar' = 0
                 /\ shots' = 0
                 /\ iced' = FALSE
                 /\ UNCHANGED <<base, size>>
    /\ UNCHANGED kept

\* mutant: the missing size reported with the message of the missing base
build_same_message ==
    /\ op' = "build" /\ arg' = <<>>
    /\ IF base = None
       THEN Raise(ValueError("base is required"))
       ELSE IF size = None
            THEN Raise(ValueError("base is required"))
            ELSE /\ raised' = NoException
                 /\ order' = <<CoffeeOrder>>
    /\ UNCHANGED <<fields, kept>>

\* mutant: no check of size, so _calc_price's assert fails instead
build_no_size_check ==
    /\ op' = "build" /\ arg' = <<>>
    /\ IF base = None
       THEN Raise(ValueError("base is required"))
       ELSE IF size = None
            THEN Raise(<<"AssertionError", "">>)
            ELSE /\ raised' = NoException
                 /\ order' = <<CoffeeOrder>>
    /\ UNCHANGED <<fields, kept>>

build ==
    /\ op' = "build" /\ arg' = <<>>
    /\ IF base = None
       THEN Raise(ValueError("base is required"))
       ELSE IF size = None
            THEN Raise(ValueError("size is required"))
            ELSE /\ raised' = NoException
                 /\ order' = <<CoffeeOrder>>
    /\ UNCHANGED <<fields, kept>>

(* ------------------------------ caller -------------------------------- *)

\* order_basic = builder. ... .build(): the caller keeps the Order that the
\* last call returned
keep ==
    /\ order # NoOrder
    /\ kept' = order
    /\ UNCHANGED <<fields, op, arg, raised, order>>

(* --------------------------- specifications --------------------------- *)

\* how far outside the valid range the numeric inputs reach
Over == 1

\* a name that no catalog holds
BadName == "mocha"

BaseInputs == DOMAIN BASE_PRICES \cup {BadName}

SizeInputs == DOMAIN SIZE_MULTIPLIERS \cup {BadName}

MilkInputs == DOMAIN MILK_SURCHARGES \cup {BadName}

SyrupPair == {"vanilla", "caramel"}

\* one more name than the builder can hold
SyrupNames == {"vanilla", "caramel", "hazelnut", "mint", "cocoa"}

Below == {0 - k : k \in 1..Over}

Above(max) == {max + k : k \in 1..Over}

\* Spec: the full catalogs and every shot count, two syrups, three sugar
\* values
Next ==
    \/ \E b \in BaseInputs : set_base(b)
    \/ \E s \in SizeInputs : set_size(s)
    \/ \E m \in MilkInputs : set_milk(m)
    \/ \E n \in SyrupPair : add_syrup(n)
    \/ \E t \in Below \cup {2} \cup Above(MAX_SUGAR) : set_sugar(t)
    \/ \E c \in Below \cup (0..MAX_SHOTS) \cup Above(MAX_SHOTS) : add_shot(c)
    \/ \E f \in BOOLEAN : set_iced(f)
    \/ clear_extras
    \/ build

Spec == Init /\ [][Next]_vars

\* SpecLimits: five syrup names and the numeric inputs at and beyond their
\* limits, one valid and one invalid name per catalog
NextLimits ==
    \/ \E b \in {"espresso", BadName} : set_base(b)
    \/ \E s \in {"medium", BadName} : set_size(s)
    \/ \E m \in {"oat", BadName} : set_milk(m)
    \/ \E n \in SyrupNames : add_syrup(n)
    \/ \E t \in Below \cup {0, MAX_SUGAR} \cup Above(MAX_SUGAR) : set_sugar(t)
    \/ \E c \in Below \cup {MAX_SHOTS} \cup Above(MAX_SHOTS) : add_shot(c)
    \/ \E f \in BOOLEAN : set_iced(f)
    \/ clear_extras
    \/ build

SpecLimits == Init /\ [][NextLimits]_vars

\* SpecReuse: the calls of the self-check's reuse scenario, the caller
\* keeping an Order while the builder is used further
NextReuse ==
    \/ \E b \in {"espresso"} : set_base(b)
    \/ \E s \in {"medium"} : set_size(s)
    \/ \E m \in {"oat", "soy"} : set_milk(m)
    \/ \E n \in {"vanilla", "hazelnut"} : add_syrup(n)
    \/ \E t \in {2} : set_sugar(t)
    \/ \E c \in {1} : add_shot(c)
    \/ \E f \in BOOLEAN : set_iced(f)
    \/ clear_extras
    \/ build
    \/ keep

SpecReuse == Init /\ [][NextReuse]_vars

\* SpecSugar: every sugar value from below 0 to above the maximum, one
\* valid input for each other call
NextSugar ==
    \/ \E b \in {"latte"} : set_base(b)
    \/ \E s \in {"small"} : set_size(s)
    \/ \E m \in {"whole"} : set_milk(m)
    \/ \E n \in {"vanilla"} : add_syrup(n)
    \/ \E t \in Below \cup (0..MAX_SUGAR) \cup Above(MAX_SUGAR) : set_sugar(t)
    \/ \E c \in {1} : add_shot(c)
    \/ \E f \in BOOLEAN : set_iced(f)
    \/ clear_extras
    \/ build

SpecSugar == Init /\ [][NextSugar]_vars

(* ------------------------------- claims ------------------------------- *)

NoDuplicates(s) == \A i, j \in 1..Len(s) : s[i] = s[j] => i = j

\* C1: after any sequence of builder operations, successful or failing, the
\* builder and every Order built from it hold at most 4 syrups with no name
\* twice, 0 <= sugar <= 5 and 0 <= extra shots <= 3.
C1_LimitsHold ==
    /\ Len(syrups) <= 4 /\ NoDuplicates(syrups)
    /\ 0 <= sugar /\ sugar <= 5
    /\ 0 <= shots /\ shots <= 3
    /\ order # NoOrder =>
         /\ Len(order[1].syrups) <= 4 /\ NoDuplicates(order[1].syrups)
         /\ 0 <= order[1].sugar /\ order[1].sugar <= 5
         /\ 0 <= order[1].extra_shots /\ order[1].extra_shots <= 3

\* an Order built with every bounded quantity at its maximum
C1_Witness ==
    /\ order # NoOrder
    /\ Len(order[1].syrups) = 4 /\ order[1].sugar = 5
    /\ order[1].extra_shots = 3

\* C2: a call that fails leaves every builder field as it was before the call.
C2_FailureLeavesFields == [][raised' # NoException => UNCHANGED fields]_vars

\* add_shot has failed on the limit with a running total already stored
C2_Witness ==
    /\ op = "add_shot" /\ raised = ValueError("Shot limit exceeded")
    /\ shots = 3 /\ Len(syrups) = 4 /\ sugar = 5 /\ base # None

\* C3: build() changes no builder field, and a build() that directly follows
\* a successful build() returns an Order equal to the first in every field.
C3_BuildPure ==
    [][op' = "build" =>
         /\ UNCHANGED fields
         /\ (op = "build" /\ order # NoOrder) => order' = order]_vars

\* build() has returned an Order of a builder with extras chosen
C3_Witness ==
    /\ op = "build" /\ order # NoOrder
    /\ order[1].milk = "soy" /\ order[1].syrups = <<"caramel", "vanilla">>
    /\ order[1].extra_shots = 2 /\ order[1].iced /\ milk = "soy" /\ shots = 2

\* C4: build() fails on a missing field whenever base is unset and whenever
\* size is unset, whatever the other fields; it returns an Order if and only
\* if both are set.
C4_BuildMissingField ==
    [][op' = "build" =>
         /\ base = None => raised' = ValueError("base is required")
         /\ (base # None /\ size = None) =>
                raised' = ValueError("size is required")
         /\ (base = None \/ size = None) => order' = NoOrder
         /\ (base # None /\ size # None) =>
                (raised' = NoException /\ order' # NoOrder)]_vars

\* build() has failed for the size alone, extras being set
C4_Witness ==
    /\ op = "build" /\ raised = ValueError("size is required")
    /\ base = "latte" /\ size = None /\ milk = "oat" /\ shots = 1

\* the price the claim states, in hundredths: basePrice * sizeMultiplier is
\* BASE_PRICES * SIZE_MULTIPLIERS / 10, and 20% of it is a fifth
C5_Price(b, s, m, n, k, i) ==
    LET bm == BASE_PRICES[b] * SIZE_MULTIPLIERS[s]
    IN  bm * 10 + MILK_SURCHARGES[m] * 100 + 40 * 100 * n + 70 * 100 * k
          + (IF i THEN bm * 2 ELSE 0)

\* C5: the price of a built Order is basePrice[base] * sizeMultiplier[size]
\* + milkSurcharge[milk] + 40 per syrup + 70 per shot, plus 20% of
\* basePrice[base] * sizeMultiplier[size] when iced, to 2 decimals; the
\* espresso/medium/oat/[vanilla,caramel]/sugar 2/1 shot/iced order costs 498.00.
C5_PriceFormula ==
    (op = "build" /\ order # NoOrder) =>
        /\ order[1].price = C5_Price(base, size, milk, Len(syrups), shots, iced)
        /\ (/\ base = "espresso" /\ size = "medium" /\ milk = "oat"
            /\ syrups = <<"vanilla", "caramel">> /\ sugar = 2 /\ shots = 1
            /\ iced) => order[1].price = 49800

\* the end-to-end example has been built
C5_Witness ==
    /\ op = "build" /\ order # NoOrder
    /\ base = "espresso" /\ size = "medium" /\ milk = "oat"
    /\ syrups = <<"vanilla", "caramel">> /\ sugar = 2 /\ shots = 1 /\ iced
    /\ order[1].price = 49800

\* C6: add_syrup of a name already present succeeds and leaves the sequence
\* as it was, also when the builder holds 4 syrups.
C6_DuplicateSyrup ==
    [][(op' = "add_syrup" /\ Contains(syrups, arg'[1])) =>
         (raised' = NoException /\ syrups' = syrups)]_vars

\* a name other than the last one was added again to a full builder
C6_Witness ==
    /\ op = "add_syrup" /\ raised = NoException
    /\ Len(syrups) = 4 /\ arg[1] = syrups[2]

\* C7: add_syrup of a name not yet present fails on the limit exactly when the
\* builder holds 4 syrups; otherwise it appends the name, the earlier entries
\* keeping their order.
C7_NewSyrup ==
    [][(op' = "add_syrup" /\ ~Contains(syrups, arg'[1])) =>
         IF Len(syrups) = 4
         THEN raised' = ValueError("Syrup limit exceeded") /\ syrups' = syrups
         ELSE /\ Len(syrups) < 4
              /\ raised' = NoException
              /\ syrups' = Append(syrups, arg'[1])]_vars

\* a fifth name was refused
C7_Witness ==
    /\ op = "add_syrup" /\ raised = ValueError("Syrup limit exceeded")
    /\ Len(syrups) = 4 /\ ~Contains(syrups, arg[1])

\* C8: add_shot(count) fails on a negative count, fails on the limit when the
\* running total plus count exceeds 3, the total then staying as it was, and
\* otherwise adds count to the running total.
C8_AddShot ==
    [][op' = "add_shot" =>
         IF arg'[1] < 0
         THEN /\ raised' = ValueError("Shot count cannot be negative")
              /\ shots' = shots
         ELSE IF shots + arg'[1] > 3
              THEN /\ raised' = ValueError("Shot limit exceeded")
                   /\ shots' = shots
              ELSE /\ raised' = NoException
                   /\ shots' = shots + arg'[1]]_vars

\* add_shot(1) has raised a running total of 1 to 2
C8_Witness == op = "add_shot" /\ arg = <<1>> /\ raised = NoException /\ shots = 2

\* C9: clear_extras always succeeds and leaves milk = none, no syrups,
\* sugar 0, shots 0 and iced false, base and size keeping their values.
C9_ClearExtras ==
    [][op' = "clear_extras" =>
         /\ raised' = NoException
         /\ milk' = "none" /\ syrups' = <<>> /\ sugar' = 0 /\ shots' = 0
         /\ iced' = FALSE
         /\ base' = base /\ size' = size]_vars

\* clear_extras has run on a builder whose base and size are chosen
C9_Witness ==
    /\ op = "clear_extras" /\ raised = NoException
    /\ base = "cappuccino" /\ size = "large"
    /\ milk = "none" /\ syrups = <<>> /\ sugar = 0 /\ shots = 0 /\ ~iced


\* the builder's choices, under the names of the Order's fields
C10_Chosen ==
    [base |-> base, size |-> size, milk |-> milk, syrups |-> syrups,
     sugar |-> sugar, iced |-> iced, extra_shots |-> shots]

\* the Order fields a successful call of the operation may change
C10_Affected(o) ==
    CASE o = "set_base" -> {"base"}
      [] o = "set_size" -> {"size"}
      [] o = "set_milk" -> {"milk"}
      [] o = "add_syrup" -> {"syrups"}
      [] o = "set_sugar" -> {"sugar"}
      [] o = "add_shot" -> {"extra_shots"}
      [] o = "set_iced" -> {"iced"}
      [] o = "clear_extras" ->
             {"milk", "syrups", "sugar", "extra_shots", "iced"}
      [] OTHER -> {}

\* C10: an Order is a snapshot.  An Order the caller keeps changes only when
\* the caller rebinds it, never with a call on the builder; build() returns
\* the builder's choices as they are at the call; and a call that follows a
\* build() leaves every choice equal to the built Order's field except those
\* the call affects, so that the next Order differs from the earlier one in
\* those fields only (and in the price and description derived from them).
C10_Snapshot ==
    [][/\ (kept # NoOrder /\ kept' # kept) =>
              (kept' = order /\ UNCHANGED <<fields, op, arg, raised, order>>)
       /\ (op' = "build" /\ order' # NoOrder) =>
              \A f \in DOMAIN C10_Chosen : order'[1][f] = C10_Chosen[f]
       /\ (op = "build" /\ order # NoOrder /\ op' # "build") =>
              \A f \in DOMAIN C10_Chosen :
                  (raised' # NoException \/ f \notin C10_Affected(op')) =>
                      C10_Chosen'[f] = order[1][f]]_vars

\* the self-check's reuse: the kept Order has oat milk and 1 shot, the Order
\* built after set_milk("soy"), add_syrup("hazelnut") and add_shot() has soy
\* milk, the new syrup and 2 shots, and everything else as before
C10_Witness ==
    /\ kept # NoOrder /\ op = "build" /\ order # NoOrder
    /\ kept[1].milk = "oat" /\ kept[1].syrups = <<"vanilla">>
    /\ kept[1].extra_shots = 1
    /\ order[1].milk = "soy" /\ order[1].syrups = <<"vanilla", "hazelnut">>
    /\ order[1].extra_shots = 2
    /\ order[1].price # kept[1].price
    /\ \A f \in {"base", "size", "sugar", "iced"} : order[1][f] = kept[1][f]
    /\ kept[1].sugar = 2 /\ kept[1].iced

\* C11: set_sugar(n) succeeds exactly when 0 <= n <= 5 and then stores n in
\* place of the earlier value, so that a build() that follows reports
\* sugar = n; for any other n, -1 and 6 among them, it fails on the range.
C11_SetSugar ==
    [][/\ op' = "set_sugar" =>
            IF 0 <= arg'[1] /\ arg'[1] <= 5
            THEN raised' = NoException /\ sugar' = arg'[1]
            ELSE /\ raised' = ValueError("Sugar must be in range 0..5")
                 /\ sugar' = sugar
       /\ (op = "set_sugar" /\ raised = NoException /\ op' = "build"
             /\ order' # NoOrder) => order'[1].sugar = arg[1]]_vars

\* build() has returned an Order that reports the maximum, 5
C11_Witness ==
    /\ op = "build" /\ order # NoOrder /\ order[1].sugar = 5 /\ sugar = 5

C13_Commas(s) ==
    CASE Len(s) = 1 -> s[1]
      [] Len(s) = 2 -> s[1] \o "," \o s[2]
      [] Len(s) = 3 -> s[1] \o "," \o s[2] \o "," \o s[3]
      [] Len(s) = 4 -> s[1] \o "," \o s[2] \o "," \o s[3] \o "," \o s[4]

\* the description the claim states: each clause that is present follows the
\* text before it after one space
C13_Text(b, z, m, s, i, g, k) ==
    z \o " " \o b
      \o (IF m # "none" THEN " with " \o m \o " milk" ELSE "")
      \o (IF s # <<>> THEN " +" \o C13_Commas(s) \o " syrup" ELSE "")
      \o (IF i THEN " (iced)" ELSE "")
      \o (IF g > 0 THEN " " \o ToString(g) \o " tsp sugar" ELSE "")
      \o (IF k > 0 THEN " +" \o ToString(k) \o " extra shot(s)" ELSE "")

\* C13: the description of a built Order is "{size} {base}", then
\* "with {milk} milk" iff milk is not none, "+{syrups, comma-joined} syrup"
\* iff there are syrups, "(iced)" iff iced, "{sugar} tsp sugar" iff sugar > 0
\* and "+{shots} extra shot(s)" iff shots > 0, in this order, joined by
\* single spaces, with no clause whose condition is false.
C13_Description ==
    (op = "build" /\ order # NoOrder) =>
        order[1].description =
            C13_Text(base, size, milk, syrups, iced, sugar, shots)

\* the end-to-end example, every clause present
C13_Witness ==
    /\ op = "build" /\ order # NoOrder
    /\ order[1].description =
         "medium espresso with oat milk +vanilla,caramel syrup (iced) 2 tsp sugar +1 extra shot(s)"

\* C14: set_base, set_size and set_milk fail on the choice exactly when the
\* name is not in the base, size or milk catalog; otherwise the call stores
\* the name in place of the earlier choice of that field.
C14_CatalogSetters ==
    [][/\ op' = "set_base" =>
            IF arg'[1] \in {"espresso", "americano", "latte", "cappuccino"}
            THEN raised' = NoException /\ base' = arg'[1]
            ELSE /\ raised' = ValueError("Invalid base: " \o arg'[1])
                 /\ base' = base
       /\ op' = "set_size" =>
            IF arg'[1] \in {"small", "medium", "large"}
            THEN raised' = NoException /\ size' = arg'[1]
            ELSE /\ raised' = ValueError("Invalid size: " \o arg'[1])
                 /\ size' = size
       /\ op' = "set_milk" =>
            IF arg'[1] \in {"none", "whole", "skim", "oat", "soy"}
            THEN raised' = NoException /\ milk' = arg'[1]
            ELSE /\ raised' = ValueError("Invalid milk: " \o arg'[1])
                 /\ milk' = milk]_vars

\* set_milk has refused a name outside its catalog, the earlier choice kept
C14_Witness ==
    /\ op = "set_milk" /\ arg = <<"mocha">>
    /\ raised = ValueError("Invalid milk: mocha") /\ milk = "skim"
    /\ base = "americano" /\ size = "large"

\* C15: with any base and any size of the catalogs chosen, and whatever the
\* extras, build() returns an Order and its price is greater than 0.
C15_BuildSucceeds ==
    [][(/\ op' = "build"
        /\ base \in {"espresso", "americano", "latte", "cappuccino"}
        /\ size \in {"small", "medium", "large"}) =>
           /\ raised' = NoException
           /\ order' # NoOrder
           /\ order'[1].price > 0]_vars

\* the cheapest order, a small espresso without extras, has been built
C15_Witness ==
    /\ op = "build" /\ order # NoOrder
    /\ base = "espresso" /\ size = "small" /\ milk = "none"
    /\ syrups = <<>> /\ shots = 0 /\ ~iced /\ order[1].price = 20000

\* the error kind the claim assigns to the cause of a failed call
C16_Kind ==
    CASE op \in {"set_base", "set_size", "set_milk"} -> "InvalidChoice"
      [] op = "add_syrup" -> "LimitExceeded"
      [] op = "set_sugar" -> "OutOfRange"
      [] op = "add_shot" ->
             IF arg[1] < 0 THEN "InvalidArgument" ELSE "LimitExceeded"
      [] op = "build" -> "MissingField"

C16_Message ==
    CASE op = "set_base" -> "Invalid base: " \o arg[1]
      [] op = "set_size" -> "Invalid size: " \o arg[1]
      [] op = "set_milk" -> "Invalid milk: " \o arg[1]
      [] op = "add_syrup" -> "Syrup limit exceeded"
      [] op = "set_sugar" -> "Sugar must be in range 0..5"
      [] op = "add_shot" ->
             IF arg[1] < 0 THEN "Shot count cannot be negative"
             ELSE "Shot limit exceeded"
      [] op = "build" ->
             IF base = None THEN "base is required" ELSE "size is required"

C17_OwnFieldOnly ==
    [][/\ (raised' = NoException /\ op' = "set_base") =>
              UNCHANGED <<size, milk, syrups, sugar, iced, shots>>
       /\ (raised' = NoException /\ op' = "set_size") =>
              UNCHANGED <<base, milk, syrups, sugar, iced, shots>>
       /\ (raised' = NoException /\ op' = "set_milk") =>
              UNCHANGED <<base, size, syrups, sugar, iced, shots>>
       /\ (raised' = NoException /\ op' = "add_syrup") =>
              UNCHANGED <<base, size, milk, sugar, iced, shots>>
       /\ (raised' = NoException /\ op' = "set_sugar") =>
              UNCHANGED <<base, size, milk, syrups, iced, shots>>
       /\ (raised' = NoException /\ op' = "add_shot") =>
              UNCHANGED <<base, size, milk, syrups, sugar, iced>>
       /\ op' = "set_iced" =>
              /\ raised' = NoException
              /\ iced' = arg'[1]
              /\ UNCHANGED <<base, size, milk, syrups, sugar, shots>>]_vars

\* set_iced(False) has switched the flag off on a builder with every other
\* field chosen
C17_Witness ==
    /\ op = "set_iced" /\ arg = <<FALSE>> /\ ~iced /\ raised = NoException
    /\ base = "latte" /\ size = "medium" /\ milk = "whole"
    /\ syrups = <<"caramel">> /\ sugar = 2 /\ shots = 2

\* C18: no call returns base or size to unset, so once build() has returned
\* an Order (here one the caller keeps) every later build() returns one too,
\* whatever calls, failing ones and clear_extras among them, come between.
C18_BuildStaysPossible ==
    [][/\ base # None => base' # None
       /\ size # None => size' # None
       /\ order' # NoOrder => (base' # None /\ size' # None)
       /\ (kept' # NoOrder /\ op' = "build") => order' # NoOrder]_vars

\* build() has succeeded again after the caller kept an Order and
\* clear_extras removed the syrups and the milk it was built with
C18_Witness ==
    /\ kept # NoOrder /\ op = "build" /\ order # NoOrder
    /\ kept[1].milk = "oat" /\ kept[1].syrups = <<"hazelnut", "vanilla">>
    /\ order[1].milk = "none" /\ order[1].syrups = <<>>

C19_IsPrefix(s, t) == Len(s) <= Len(t) /\ SubSeq(t, 1, Len(s)) = s

\* C19: a call other than clear_extras never lowers the shot total and
\* leaves the syrup sequence a prefix of the new one, so that between two
\* clear_extras calls the total only rises and the sequence only grows at
\* its end; clear_extras alone lowers the total or removes a syrup.
C19_OnlyClearRemoves ==
    [][op' # "clear_extras" =>
         (shots' >= shots /\ C19_IsPrefix(syrups, syrups'))]_vars

\* a name in the middle of a full sequence was added again, the shot total
\* at its maximum
C19_Witness ==
    /\ op = "add_syrup" /\ raised = NoException
    /\ Len(syrups) = 4 /\ arg[1] = syrups[2] /\ shots = 3 /\ sugar = 5

=============================================================================
